---- MODULE Spec2Model ----
(***************************************************************************)
(* Model of the forecasting engine of Price-Pulse_Reader                   *)
(* (src/src/utils/forecasting.ts) and of the prediction runs of its        *)
(* Dashboard (src/unnamed/part_003).                                       *)
(*                                                                         *)
(* Numbers.  A JavaScript number is modelled as an exact rational          *)
(* [n |-> numerator, d |-> denominator], d > 0, in lowest terms.  The      *)
(* arithmetic of the forecasters (+, -, *, /) is exact; toFixed(2) rounds  *)
(* the exact value to the nearest hundredth and, as ECMA-262 states for    *)
(* Number.prototype.toFixed, takes the larger magnitude when two           *)
(* hundredths are equally near (the binary rounding error of a double,     *)
(* which can move a value off such a tie, is not modelled).  null is the   *)
(* record Null (d = 0).                                                    *)
(*                                                                         *)
(* Dates.  An ISO date string "YYYY-MM-DD" is modelled as its day number   *)
(* (days since 1970-01-01, a Thursday); a Date object is its time value in *)
(* hours since the epoch.  new Date("YYYY-MM-DD") is midnight UTC of that  *)
(* day; getDate, setDate and getDay work on the host's local time,         *)
(* toISOString on UTC.  The host's time zone is part of the state.         *)
(***************************************************************************)
EXTENDS Integers, Sequences, FiniteSets, TLC

VARIABLES data, host, call, ret, score, allPredictions, best,
          dashboard, tasks, started

\* the state of the forecasting engine's calls, and that of the Dashboard
engine == <<data, host, call, ret, score, allPredictions, best>>
dash == <<dashboard, tasks, started>>

vars == <<data, host, call, ret, score, allPredictions, best, dashboard, tasks, started>>

-----------------------------------------------------------------------------
(* Exact rational arithmetic standing for JavaScript numbers.              *)

Abs(x) == IF x < 0 THEN -x ELSE x

RECURSIVE GCD(_, _)
GCD(a, b) == IF b = 0 THEN a ELSE GCD(b, a % b)

Rat(n, d) ==
  LET g == GCD(Abs(n), d)
  IN  [n |-> n \div g, d |-> d \div g]

Zero == Rat(0, 1)

Null == [n |-> 0, d |-> 0]

IsNull(x) == x.d = 0

RAdd(a, b) ==
  LET l == (a.d \div GCD(a.d, b.d)) * b.d
  IN  Rat(a.n * (l \div a.d) + b.n * (l \div b.d), l)

RNeg(a) == [n |-> -a.n, d |-> a.d]

RSub(a, b) == RAdd(a, RNeg(b))

RMul(a, b) ==
  LET g1 == GCD(Abs(a.n), b.d)
      g2 == GCD(Abs(b.n), a.d)
  IN  Rat((a.n \div g1) * (b.n \div g2), (a.d \div g2) * (b.d \div g1))

\* a / b for b # 0
RDiv(a, b) ==
  IF b.n > 0 THEN RMul(a, [n |-> b.d, d |-> b.n])
  ELSE RMul(a, [n |-> -b.d, d |-> -b.n])

RAbs(a) == [n |-> Abs(a.n), d |-> a.d]

RLess(a, b) == a.n * b.d < b.n * a.d

RLeq(a, b) == a.n * b.d <= b.n * a.d

\* The integer nearest to n/d (n >= 0, d > 0), the larger one on a tie.
RoundHalfUp(n, d) ==
  LET r == n % d
  IN  IF r >= d - r THEN (n \div d) + 1 ELSE n \div d

\* x.toFixed(2), as the number of hundredths its digits spell: the integer k with
\* k / 100 nearest to x, the larger magnitude when two are equally near.
toFixed2(x) ==
  LET g == GCD(100, x.d)
      k == RoundHalfUp((100 \div g) * Abs(x.n), x.d \div g)
  IN  IF x.n < 0 THEN -k ELSE k

\* parseFloatToFixed2 with a fault: the value is stored as computed
NotRounded(x) == x

\* parseFloat(x.toFixed(2))
parseFloatToFixed2(x) == Rat(toFixed2(x), 100)

RECURSIVE Sum(_)
\* arr.reduce((sum, val) => sum + val, 0)
Sum(arr) == IF arr = <<>> THEN Zero ELSE RAdd(Sum(SubSeq(arr, 1, Len(arr) - 1)), arr[Len(arr)])

Max(a, b) == IF a > b THEN a ELSE b

\* arr.slice(-k) for k >= 1: the last k elements, the whole array when it has fewer.
\* arr.slice(-0) is arr.slice(0): the whole array.
SliceLast(arr, k) ==
  IF k = 0 \/ k >= Len(arr) THEN arr ELSE SubSeq(arr, Len(arr) - k + 1, Len(arr))

-----------------------------------------------------------------------------
(* The host's clock: Date's local-time methods.                            *)
(* A host is [tz, dstAt, shift]: its local time is UTC + tz hours before   *)
(* the time value dstAt and UTC + tz + shift hours from dstAt on           *)
(* (shift = 0: no daylight-saving transition).                             *)

LocalTZA(t, h) == h.tz + (IF h.shift # 0 /\ t >= h.dstAt THEN h.shift ELSE 0)

LocalTime(t, h) == t + LocalTZA(t, h)

\* The time value of a local time w; a local time the transition skips or repeats
\* is read with the offset before the transition.
UTCOfLocal(w, h) ==
  LET t1 == w - h.tz
      t2 == w - h.tz - h.shift
  IN  IF h.shift = 0 \/ t1 < h.dstAt THEN t1
      ELSE IF t2 >= h.dstAt THEN t2 ELSE t1

\* new Date("YYYY-MM-DD"): midnight UTC of the day
NewDate(day) == day * 24

\* date.setDate(date.getDate() + 1): the same local time of day, one local day later
SetDateNext(t, h) == UTCOfLocal(LocalTime(t, h) + 24, h)

\* the weekday of a day number, 0 = Sunday .. 6 = Saturday (day 0 is a Thursday)
WeekDay(day) == (day + 4) % 7

\* date.getDay(): the weekday of the local day
GetDay(t, h) == WeekDay(LocalTime(t, h) \div 24)

\* date.toISOString().split('T')[0]: the UTC day
ToISODate(t) == t \div 24

RECURSIVE NextBusinessLoop(_, _, _, _)
NextBusinessLoop(t, businessDaysAdded, daysToAdd, h) ==
  IF businessDaysAdded < daysToAdd
  THEN LET t2 == SetDateNext(t, h)
           dayOfWeek == GetDay(t2, h)
       IN  NextBusinessLoop(t2,
             IF dayOfWeek # 0 /\ dayOfWeek # 6 THEN businessDaysAdded + 1
             ELSE businessDaysAdded,
             daysToAdd, h)
  ELSE t

getNextBusinessDay(lastDateStr, daysToAdd, h) ==
  ToISODate(NextBusinessLoop(NewDate(lastDateStr), 0, daysToAdd, h))

-----------------------------------------------------------------------------
(* The forecasters.  A call returns [threw, results]: threw = TRUE is the  *)
(* Error thrown before any result exists.                                  *)

MOVING_AVERAGE == "Moving Average"
EXPONENTIAL_SMOOTHING == "Exponential Smoothing"
ARIMA == "ARIMA"

ForecastingModel == <<MOVING_AVERAGE, EXPONENTIAL_SMOOTHING, ARIMA>>

Throw == [threw |-> TRUE, results |-> <<>>]

Return(results) == [threw |-> FALSE, results |-> results]

PredictionResult(date, actual, predicted, modelName) ==
  [date |-> date, actual |-> actual, predicted |-> predicted, modelName |-> modelName]

closePricesOf(d) == [i \in 1..Len(d) |-> d[i].close]

datesOf(d) == [i \in 1..Len(d) |-> d[i].date]

\* Average with a fault: the sum is not divided by the length of the window
SumNotDivided(window) == Sum(window)

\* window.reduce(...) / window.length
Average(window) == RDiv(Sum(window), Rat(Len(window), 1))

\* MABacktest with a fault: the loop starts at i = windowSize + 1
MABacktestLateStart(closePrices, dates, windowSize) ==
  [k \in 1..(Len(closePrices) - windowSize - 1) |->
     LET window == SubSeq(closePrices, k + 1, k + windowSize)
         avg == Average(window)
     IN  PredictionResult(dates[k + windowSize + 1], closePrices[k + windowSize + 1],
                          parseFloatToFixed2(avg), MOVING_AVERAGE)]

\* MABacktest with a fault: the window slice(i - windowSize + 1, i + 1) takes in close[i]
MABacktestWindowWithCurrent(closePrices, dates, windowSize) ==
  [k \in 1..(Len(closePrices) - windowSize) |->
     LET window == SubSeq(closePrices, k + 1, k + windowSize)
         avg == Average(window)
     IN  PredictionResult(dates[k + windowSize], closePrices[k + windowSize],
                          parseFloatToFixed2(avg), MOVING_AVERAGE)]

\* The backtest loop of movingAveragePredict (0-based i = windowSize .. length-1;
\* the k-th entry, k from 1, is the one of i = windowSize + k - 1).
MABacktest(closePrices, dates, windowSize) ==
  [k \in 1..(Len(closePrices) - windowSize) |->
     LET window == SubSeq(closePrices, k, k + windowSize - 1)
         avg == Average(window)
     IN  PredictionResult(dates[k + windowSize], closePrices[k + windowSize],
                          parseFloatToFixed2(avg), MOVING_AVERAGE)]

RECURSIVE MAForecastUnroundedFeedback(_, _, _, _, _)
\* MAForecast with a fault: the unrounded mean is fed back into the window
MAForecastUnroundedFeedback(lastPredictions, i, forecastDays, lastDate, h) ==
  IF i < forecastDays
  THEN LET nextDate == getNextBusinessDay(lastDate, i + 1, h)
           avg == Average(lastPredictions)
           prediction == parseFloatToFixed2(avg)
       IN  <<PredictionResult(nextDate, Null, prediction, MOVING_AVERAGE)>>
           \o MAForecastUnroundedFeedback(Tail(lastPredictions) \o <<avg>>, i + 1,
                                          forecastDays, lastDate, h)
  ELSE <<>>

RECURSIVE MAForecast(_, _, _, _, _)
\* The forecast loop of movingAveragePredict from step i (0-based) on.
MAForecast(lastPredictions, i, forecastDays, lastDate, h) ==
  IF i < forecastDays
  THEN LET nextDate == getNextBusinessDay(lastDate, i + 1, h)
           avg == Average(lastPredictions)
           prediction == parseFloatToFixed2(avg)
       IN  <<PredictionResult(nextDate, Null, prediction, MOVING_AVERAGE)>>
           \o MAForecast(Tail(lastPredictions) \o <<prediction>>, i + 1,
                         forecastDays, lastDate, h)
  ELSE <<>>

\* MAInsufficient with a fault: a series exactly as long as the window is refused
MAInsufficientAtWindow(length, windowSize) == length <= windowSize

MAInsufficient(length, windowSize) == length < windowSize

movingAveragePredict(d, windowSize, forecastDays, h) ==
  IF MAInsufficient(Len(d), windowSize) THEN Throw
  ELSE LET closePrices == closePricesOf(d)
           dates == datesOf(d)
       IN  Return(MABacktest(closePrices, dates, windowSize)
                  \o MAForecast(SliceLast(closePrices, windowSize), 0, forecastDays,
                                dates[Len(dates)], h))

\* forecast = alpha * actual + (1 - alpha) * forecast
\* Smooth with a fault: the previous forecast is not weighted by 1 - alpha
SmoothUndamped(alpha, actual, forecast) ==
  RAdd(RMul(alpha, actual), forecast)

Smooth(alpha, actual, forecast) ==
  RAdd(RMul(alpha, actual), RMul(RSub(Rat(1, 1), alpha), forecast))

RECURSIVE ESForecastAtCurrent(_, _, _)
\* ESForecastAt with a fault: the iteration i smooths the close of its own index
ESForecastAtCurrent(closePrices, alpha, i) ==
  IF i = 0 THEN closePrices[1]
  ELSE Smooth(alpha, closePrices[i + 1], ESForecastAtCurrent(closePrices, alpha, i - 1))

RECURSIVE ESForecastAt(_, _, _)
\* The value of the variable forecast after the backtest iteration i (0-based);
\* its initial value closePrices[0] for i = 0.
ESForecastAt(closePrices, alpha, i) ==
  IF i = 0 THEN closePrices[1]
  ELSE Smooth(alpha, closePrices[i], ESForecastAt(closePrices, alpha, i - 1))

\* The backtest loop of exponentialSmoothingPredict (0-based i = 1 .. length-1).
ESBacktest(closePrices, dates, alpha) ==
  [i \in 1..(Len(closePrices) - 1) |->
     PredictionResult(dates[i + 1], closePrices[i + 1],
                      parseFloatToFixed2(ESForecastAt(closePrices, alpha, i)),
                      EXPONENTIAL_SMOOTHING)]

RECURSIVE ESForecastKeepsLastClose(_, _, _, _, _, _, _)
\* ESForecast with a fault: lastActual stays the final observed close
ESForecastKeepsLastClose(forecast, lastActual, alpha, i, forecastDays, lastDate, h) ==
  IF i < forecastDays
  THEN LET nextDate == getNextBusinessDay(lastDate, i + 1, h)
           forecast2 == Smooth(alpha, lastActual, forecast)
           prediction == parseFloatToFixed2(forecast2)
       IN  <<PredictionResult(nextDate, Null, prediction, EXPONENTIAL_SMOOTHING)>>
           \o ESForecastKeepsLastClose(forecast2, lastActual, alpha, i + 1, forecastDays,
                                       lastDate, h)
  ELSE <<>>

RECURSIVE ESForecast(_, _, _, _, _, _, _)
\* The forecast loop of exponentialSmoothingPredict from step i (0-based) on.
ESForecast(forecast, lastActual, alpha, i, forecastDays, lastDate, h) ==
  IF i < forecastDays
  THEN LET nextDate == getNextBusinessDay(lastDate, i + 1, h)
           forecast2 == Smooth(alpha, lastActual, forecast)
           prediction == parseFloatToFixed2(forecast2)
       IN  <<PredictionResult(nextDate, Null, prediction, EXPONENTIAL_SMOOTHING)>>
           \o ESForecast(forecast2, prediction, alpha, i + 1, forecastDays, lastDate, h)
  ELSE <<>>

ESInsufficient(length) == length < 2

exponentialSmoothingPredict(d, alpha, forecastDays, h) ==
  IF ESInsufficient(Len(d)) THEN Throw
  ELSE LET closePrices == closePricesOf(d)
           dates == datesOf(d)
       IN  Return(ESBacktest(closePrices, dates, alpha)
                  \o ESForecast(ESForecastAt(closePrices, alpha, Len(closePrices) - 1),
                                closePrices[Len(closePrices)], alpha, 0, forecastDays,
                                dates[Len(dates)], h))

RECURSIVE Difference(_, _)
\* d rounds of diffPrices = diffPrices.slice(1).map((val, idx) => val - diffPrices[idx])
Difference(prices, d) ==
  IF d = 0 THEN prices
  ELSE LET prev == Difference(prices, d - 1)
       IN  [idx \in 1..(Len(prev) - 1) |-> RSub(prev[idx + 1], prev[idx])]

RECURSIVE WeightedTail(_, _, _, _)
\* sum over j = 0 .. count-1 of coefficient * arr[upTo - j], upTo a 1-based index
WeightedTail(arr, upTo, count, coefficient) ==
  IF count = 0 THEN Zero
  ELSE RAdd(WeightedTail(arr, upTo, count - 1, coefficient),
            RMul(coefficient, arr[upTo - (count - 1)]))

Min(a, b) == IF a < b THEN a ELSE b

RECURSIVE ArimaBacktestResidualReversed(_, _, _, _, _)
\* ArimaBacktest with a fault: the residual is prediction - actual
ArimaBacktestResidualReversed(diffPrices, p, q, i, st) ==
  IF i < Len(diffPrices)
  THEN LET arComponent == WeightedTail(diffPrices, i, p, Rat(1, p))
           maComponent == WeightedTail(st.errors, Len(st.errors),
                                       Min(q, Len(st.errors)), Rat(1, q))
           prediction == RAdd(arComponent, maComponent)
           error == RSub(prediction, diffPrices[i + 1])
       IN  ArimaBacktestResidualReversed(diffPrices, p, q, i + 1,
                         [predictions |-> Append(st.predictions, prediction),
                          errors |-> Append(st.errors, error)])
  ELSE st

RECURSIVE ArimaBacktest(_, _, _, _, _)
\* The backtest loop of arimaPredict from the 0-based index i on; st holds the
\* arrays predictions and errors built so far.
ArimaBacktest(diffPrices, p, q, i, st) ==
  IF i < Len(diffPrices)
  THEN LET arComponent == WeightedTail(diffPrices, i, p, Rat(1, p))
           maComponent == WeightedTail(st.errors, Len(st.errors),
                                       Min(q, Len(st.errors)), Rat(1, q))
           prediction == RAdd(arComponent, maComponent)
           error == RSub(diffPrices[i + 1], prediction)
       IN  ArimaBacktest(diffPrices, p, q, i + 1,
                         [predictions |-> Append(st.predictions, prediction),
                          errors |-> Append(st.errors, error)])
  ELSE st

\* undiffValue of the backtest prediction i (1-based; 0-based actualIndex is
\* i - 1 + max(p, q) + d): predictions[i] plus the d closes before actualIndex.
UndiffHistorical(predictions, closePrices, i, p, q, d) ==
  RAdd(predictions[i],
       Sum(SubSeq(closePrices, i + Max(p, q), i + Max(p, q) + d - 1)))

ArimaHistorical(predictions, closePrices, dates, p, q, d) ==
  [i \in 1..Len(predictions) |->
     PredictionResult(dates[i + Max(p, q) + d], closePrices[i + Max(p, q) + d],
        parseFloatToFixed2(UndiffHistorical(predictions, closePrices, i, p, q, d)),
        ARIMA)]

RECURSIVE UndiffForecast(_, _, _, _, _)
\* the sum the reconstruction loop adds for j = 0 .. d-1 at forecast step i
UndiffForecast(undiffPredictions, lastActuals, i, j, d) ==
  IF j < d
  THEN RAdd(IF i - j >= 0
            THEN undiffPredictions[Len(undiffPredictions) - j]
            ELSE lastActuals[Len(lastActuals) - (j - i)],
            UndiffForecast(undiffPredictions, lastActuals, i, j + 1, d))
  ELSE Zero

RECURSIVE ArimaForecastKeepsResiduals(_, _, _, _, _, _, _, _)
\* ArimaForecast with a fault: lastErrors is left as it is after a step
ArimaForecastKeepsResiduals(w, p, q, d, i, forecastDays, lastDate, h) ==
  IF i < forecastDays
  THEN LET nextDate == getNextBusinessDay(lastDate, i + 1, h)
           arComponent == WeightedTail(w.lastPredictions, Len(w.lastPredictions),
                                       Min(p, Len(w.lastPredictions)), Rat(1, p))
           maComponent == WeightedTail(w.lastErrors, Len(w.lastErrors),
                                       Min(q, Len(w.lastErrors)), Rat(1, q))
           diffPrediction == RAdd(arComponent, maComponent)
           undiffValue == RAdd(diffPrediction,
                               UndiffForecast(w.undiffPredictions, w.lastActuals, i, 0, d))
           finalPrediction == parseFloatToFixed2(undiffValue)
       IN  <<PredictionResult(nextDate, Null, finalPrediction, ARIMA)>>
           \o ArimaForecastKeepsResiduals(
                [lastPredictions |-> Tail(w.lastPredictions) \o <<diffPrediction>>,
                 lastErrors |-> w.lastErrors,
                 lastActuals |-> w.lastActuals,
                 undiffPredictions |-> Append(w.undiffPredictions, finalPrediction)],
                p, q, d, i + 1, forecastDays, lastDate, h)
  ELSE <<>>

\* What one forecast step computes from the windows w: the differenced prediction
\* and the rounded original-scale value.
ArimaStep(w, p, q, d, i) ==
  LET arComponent == WeightedTail(w.lastPredictions, Len(w.lastPredictions),
                                  Min(p, Len(w.lastPredictions)), Rat(1, p))
      maComponent == WeightedTail(w.lastErrors, Len(w.lastErrors),
                                  Min(q, Len(w.lastErrors)), Rat(1, q))
      diffPrediction == RAdd(arComponent, maComponent)
      undiffValue == RAdd(diffPrediction,
                          UndiffForecast(w.undiffPredictions, w.lastActuals, i, 0, d))
  IN  [diffPrediction |-> diffPrediction,
       finalPrediction |-> parseFloatToFixed2(undiffValue)]

\* ArimaSlide with a fault: the new values are pushed without the shift
ArimaSlideWithoutShift(w, diffPrediction, finalPrediction) ==
  [lastPredictions |-> w.lastPredictions \o <<diffPrediction>>,
   lastErrors |-> w.lastErrors \o <<Zero>>,
   lastActuals |-> w.lastActuals,
   undiffPredictions |-> Append(w.undiffPredictions, finalPrediction)]

\* The arrays after a forecast step: undiffPredictions.push(finalPrediction), then
\* shift and push on lastPredictions and lastErrors; lastActuals is not written.
ArimaSlide(w, diffPrediction, finalPrediction) ==
  [lastPredictions |-> Tail(w.lastPredictions) \o <<diffPrediction>>,
   lastErrors |-> Tail(w.lastErrors) \o <<Zero>>,
   lastActuals |-> w.lastActuals,
   undiffPredictions |-> Append(w.undiffPredictions, finalPrediction)]

RECURSIVE ArimaForecast(_, _, _, _, _, _, _, _)
\* The forecast loop of arimaPredict from step i (0-based) on; w holds
\* lastPredictions, lastErrors, lastActuals and undiffPredictions.
ArimaForecast(w, p, q, d, i, forecastDays, lastDate, h) ==
  IF i < forecastDays
  THEN LET nextDate == getNextBusinessDay(lastDate, i + 1, h)
           step == ArimaStep(w, p, q, d, i)
       IN  <<PredictionResult(nextDate, Null, step.finalPrediction, ARIMA)>>
           \o ArimaForecast(ArimaSlide(w, step.diffPrediction, step.finalPrediction),
                            p, q, d, i + 1, forecastDays, lastDate, h)
  ELSE <<>>

RECURSIVE ArimaForecastWindows(_, _, _, _, _, _)
\* The arrays the forecast loop holds at the start of each of its steps from step
\* i on, and after its last step.
ArimaForecastWindows(w, p, q, d, i, forecastDays) ==
  IF i < forecastDays
  THEN LET step == ArimaStep(w, p, q, d, i)
       IN  <<w>> \o ArimaForecastWindows(
                      ArimaSlide(w, step.diffPrediction, step.finalPrediction),
                      p, q, d, i + 1, forecastDays)
  ELSE <<w>>

\* The arrays the forecast loop starts with: the last p backtest predictions, the
\* last q backtest residuals, the last d closes and the reconstructed backtest
\* predictions.
ArimaStart(st, closePrices, p, q, d) ==
  [lastPredictions |-> SliceLast(st.predictions, p),
   lastErrors |-> SliceLast(st.errors, q),
   lastActuals |-> SliceLast(closePrices, d),
   undiffPredictions |->
     [i \in 1..Len(st.predictions) |->
        UndiffHistorical(st.predictions, closePrices, i, p, q, d)]]

ArimaInsufficient(length, p, d, q) == length < Max(p, q) + d + 1

arimaPredict(dt, p, d, q, forecastDays, h) ==
  IF ArimaInsufficient(Len(dt), p, d, q) THEN Throw
  ELSE LET closePrices == closePricesOf(dt)
           dates == datesOf(dt)
           diffPrices == Difference(closePrices, d)
           st == ArimaBacktest(diffPrices, p, q, Max(p, q),
                               [predictions |-> <<>>, errors |-> <<>>])
           historical == ArimaHistorical(st.predictions, closePrices, dates, p, q, d)
       IN  Return(historical
                  \o ArimaForecast(ArimaStart(st, closePrices, p, q, d),
                                   p, q, d, 0, forecastDays, dates[Len(dates)], h))

-----------------------------------------------------------------------------
(* The array reads of arimaPredict.  A read is [array, index, length]: the *)
(* array read, the 0-based index and the length the array has then.  A     *)
(* JavaScript read outside 0 .. length - 1 yields undefined, and           *)
(* arithmetic on undefined yields NaN.                                     *)

Read(array, index, length) == [array |-> array, index |-> index, length |-> length]

\* the differencing loop: level k maps over slice(1) of an array of length - k
\* elements and reads diffPrices[idx]
ArimaDifferencingReads(length, d) ==
  UNION {{Read("diffPrices", idx, length - k) : idx \in 0..(length - k - 2)} :
           k \in 0..(d - 1)}

\* the backtest loop over diffPrices of diffLength elements; the iteration i finds
\* i - max(p, q) residuals in errors
ArimaBacktestReads(diffLength, p, q) ==
  UNION {{Read("diffPrices", i - j - 1, diffLength) : j \in 0..(p - 1)}
         \cup {Read("errors", (i - Max(p, q)) - j - 1, i - Max(p, q)) :
                 j \in 0..(Min(q, i - Max(p, q)) - 1)}
         \cup {Read("diffPrices", i, diffLength)} :
           i \in Max(p, q)..(diffLength - 1)}

\* the loop that converts the n backtest predictions back to the original scale
ArimaHistoricalReads(length, n, p, d, q) ==
  UNION {{Read("predictions", i, n),
          Read("dates", i + Max(p, q) + d, length),
          Read("closePrices", i + Max(p, q) + d, length)}
         \cup {Read("closePrices", (i + Max(p, q) + d) - j - 1, length) :
                 j \in 0..(d - 1)} :
           i \in 0..(n - 1)}

\* what shift and push leave of an array of n elements
LengthAfterSlide(n) == Max(n - 1, 0) + 1

RECURSIVE LengthAtStep(_, _)
\* the length at the forecast step i of a window that starts with n elements
LengthAtStep(n, i) == IF i = 0 THEN n ELSE LengthAfterSlide(LengthAtStep(n, i - 1))

\* slice(-k) of an array of n elements has min(k, n) elements, all n for k = 0
SliceLastLength(n, k) == IF k = 0 \/ k >= n THEN n ELSE k

\* ArimaForecastReads with a fault: the last element of undiffPredictions is read
\* at undiffPredictions.length - j
ArimaForecastReadsOffByOne(length, n, p, d, q, forecastDays) ==
  UNION {{Read("dates", length - 1, length)}
         \cup {Read("undiffPredictions", (n + i) - j, n + i) :
                 j \in {j \in 0..(d - 1) : i - j >= 0}} :
           i \in 0..(forecastDays - 1)}

\* the forecast loop after a backtest that made n predictions
ArimaForecastReads(length, n, p, d, q, forecastDays) ==
  UNION {LET lastPredictions == LengthAtStep(SliceLastLength(n, p), i)
             lastErrors == LengthAtStep(SliceLastLength(n, q), i)
             lastActuals == SliceLastLength(length, d)
         IN  {Read("dates", length - 1, length)}
             \cup {Read("lastPredictions", lastPredictions - j - 1, lastPredictions) :
                     j \in 0..(Min(p, lastPredictions) - 1)}
             \cup {Read("lastErrors", lastErrors - j - 1, lastErrors) :
                     j \in 0..(Min(q, lastErrors) - 1)}
             \cup {Read("undiffPredictions", (n + i) - j - 1, n + i) :
                     j \in {j \in 0..(d - 1) : i - j >= 0}}
             \cup {Read("lastActuals", lastActuals - (j - i) - 1, lastActuals) :
                     j \in {j \in 0..(d - 1) : ~(i - j >= 0)}} :
           i \in 0..(forecastDays - 1)}

\* every read of a call that passes the guard, on a series of length elements
ArimaReads(length, p, d, q, forecastDays) ==
  LET diffLength == length - d
      n == Max(diffLength - Max(p, q), 0)
  IN  ArimaDifferencingReads(length, d)
      \cup ArimaBacktestReads(diffLength, p, q)
      \cup ArimaHistoricalReads(length, n, p, d, q)
      \cup ArimaForecastReads(length, n, p, d, q, forecastDays)

-----------------------------------------------------------------------------
(* What a call leaves in the array it was passed.  A JavaScript array is   *)
(* passed by reference, so a callee that wrote to it would change the      *)
(* caller's array.                                                         *)

\* DataAfterMovingAverage with a fault: the forecast loop shifts the array it was passed
DataShiftedByForecastLoop(d) == IF d = <<>> THEN d ELSE Tail(d)

\* movingAveragePredict reads data with data.length and data.map; it pushes to
\* results and shifts and pushes lastPredictions, arrays it created itself ([] and
\* closePrices.slice(-windowSize)).
DataAfterMovingAverage(d) == d

\* exponentialSmoothingPredict reads data with data.length and data.map; it pushes
\* to results only.
DataAfterExponentialSmoothing(d) == d

\* arimaPredict reads data with data.length and data.map; it pushes to and shifts
\* predictions, errors, results, undiffPredictions and the slices lastPredictions
\* and lastErrors; diffPrices is a spread copy of closePrices.
DataAfterArima(d) == d

\* calculateMAE and calculateMPE read predictions with filter, whose result they
\* reduce.
PredictionsAfterEvaluator(results) == results

\* determineBestModel reads predictions with Object.entries and forEach and writes
\* to its own object metrics.
PredictionsAfterSelector(byModel) == byModel

-----------------------------------------------------------------------------
(* The accuracy evaluator and the model selector.                          *)

\* predictions.filter(p => p.actual !== null)
ValidPairs(results) == SelectSeq(results, LAMBDA r : ~IsNull(r.actual))

\* the reduce of calculateMAE: the sum of |actual - predicted|
AbsErrorSum(validPairs) ==
  Sum([i \in 1..Len(validPairs) |->
         RAbs(RSub(validPairs[i].actual, validPairs[i].predicted))])

\* calculateMAE with a fault: the sum is divided by the number of all entries
calculateMAEOverAll(results) ==
  LET validPairs == ValidPairs(results)
  IN  IF Len(validPairs) = 0 THEN Zero
      ELSE parseFloatToFixed2(RDiv(AbsErrorSum(validPairs), Rat(Len(results), 1)))

calculateMAE(results) ==
  LET validPairs == ValidPairs(results)
  IN  IF Len(validPairs) = 0 THEN Zero
      ELSE parseFloatToFixed2(RDiv(AbsErrorSum(validPairs), Rat(Len(validPairs), 1)))

\* PctErrorSum with a fault: the error is taken as actual - predicted
PctErrorSumReversed(validPairs) ==
  Sum([i \in 1..Len(validPairs) |->
         RMul(RDiv(RSub(validPairs[i].actual, validPairs[i].predicted),
                   validPairs[i].actual), Rat(100, 1))])

\* the reduce of calculateMPE: the sum of (predicted - actual) / actual * 100
PctErrorSum(validPairs) ==
  Sum([i \in 1..Len(validPairs) |->
         RMul(RDiv(RSub(validPairs[i].predicted, validPairs[i].actual),
                   validPairs[i].actual), Rat(100, 1))])

calculateMPE(results) ==
  LET validPairs == ValidPairs(results)
  IN  IF Len(validPairs) = 0 THEN Zero
      ELSE parseFloatToFixed2(RDiv(PctErrorSum(validPairs), Rat(Len(validPairs), 1)))

DefaultWindowSize == 7
DefaultAlpha == Rat(3, 10)
DefaultP == 3
DefaultD == 1
DefaultQ == 1

\* generateAllPredictions with a fault: the moving average runs with the default
\* window of movingAveragePredict, 5
generateAllPredictionsDefaultWindow(dt, forecastDays, h) ==
  LET ma == movingAveragePredict(dt, 5, forecastDays, h)
      dt2 == DataAfterMovingAverage(dt)
      es == exponentialSmoothingPredict(dt2, DefaultAlpha, forecastDays, h)
      ar == arimaPredict(DataAfterExponentialSmoothing(dt2), DefaultP, DefaultD, DefaultQ,
                         forecastDays, h)
  IN  IF ma.threw \/ es.threw \/ ar.threw
      THEN [threw |-> TRUE, byModel |-> [m \in {} |-> <<>>]]
      ELSE [threw |-> FALSE,
            byModel |-> (MOVING_AVERAGE :> ma.results
                         @@ EXPONENTIAL_SMOOTHING :> es.results
                         @@ ARIMA :> ar.results)]

\* generateAllPredictions with a fault: a model that throws is left out of the
\* object and the others are returned
generateAllPredictionsSkipsFailed(dt, forecastDays, h) ==
  LET ma == movingAveragePredict(dt, DefaultWindowSize, forecastDays, h)
      es == exponentialSmoothingPredict(dt, DefaultAlpha, forecastDays, h)
      ar == arimaPredict(dt, DefaultP, DefaultD, DefaultQ, forecastDays, h)
      all == (MOVING_AVERAGE :> ma @@ EXPONENTIAL_SMOOTHING :> es @@ ARIMA :> ar)
      done == {m \in DOMAIN all : ~all[m].threw}
  IN  [threw |-> done = {}, byModel |-> [m \in done |-> all[m].results]]

\* The three calls of generateAllPredictions, in the order of the object literal,
\* each on the array data as the call before left it; the first that throws ends
\* the call.
generateAllPredictions(dt, forecastDays, h) ==
  LET ma == movingAveragePredict(dt, DefaultWindowSize, forecastDays, h)
      dt2 == DataAfterMovingAverage(dt)
      es == exponentialSmoothingPredict(dt2, DefaultAlpha, forecastDays, h)
      ar == arimaPredict(DataAfterExponentialSmoothing(dt2), DefaultP, DefaultD, DefaultQ,
                         forecastDays, h)
  IN  IF ma.threw \/ es.threw \/ ar.threw
      THEN [threw |-> TRUE, byModel |-> [m \in {} |-> <<>>]]
      ELSE [threw |-> FALSE,
            byModel |-> (MOVING_AVERAGE :> ma.results
                         @@ EXPONENTIAL_SMOOTHING :> es.results
                         @@ ARIMA :> ar.results)]

MetricsOf(byModel) ==
  [m \in {MOVING_AVERAGE, EXPONENTIAL_SMOOTHING, ARIMA} |->
     [mae |-> calculateMAE(byModel[m]), mpe |-> calculateMPE(byModel[m])]]

\* Better with a fault: a model that only ties the lowest MAE replaces the best one
BetterOrEqual(mae, lowestMAE) == RLeq(mae, lowestMAE)

\* the test of the forEach callback of determineBestModel
Better(mae, lowestMAE) == RLess(mae, lowestMAE)

RECURSIVE BestLoop(_, _, _, _)
\* Object.entries(metrics).forEach(...) from the entry k (1-based) on
BestLoop(metrics, k, bestModel, lowestMAE) ==
  IF k > Len(ForecastingModel) THEN bestModel
  ELSE LET model == ForecastingModel[k]
           mae == metrics[model].mae
       IN  IF Better(mae, lowestMAE)
           THEN BestLoop(metrics, k + 1, model, mae)
           ELSE BestLoop(metrics, k + 1, bestModel, lowestMAE)

determineBestModel(byModel) ==
  LET metrics == MetricsOf(byModel)
  IN  [bestModel |-> BestLoop(metrics, 1, MOVING_AVERAGE, metrics[MOVING_AVERAGE].mae),
       metrics |-> metrics]

-----------------------------------------------------------------------------
(* The inputs the calls are given.                                         *)

MaxLen == 4
MaxForecastDays == 2

\* closes of the short series: prices with cents
CloseValues == {Rat(1, 1), Rat(101, 100), Rat(103, 100)}

\* closes of the series long enough for generateAllPredictions (window 7)
LongCloseValues == {Rat(1, 1), Rat(2, 1)}

LongLengths == 7..8

\* series long enough for an ARIMA backtest of several steps with orders of 2
ArimaSeries == {<<Rat(1, 1), Rat(103, 100), Rat(101, 100), Rat(103, 100), Rat(1, 1)>>,
                <<Rat(101, 100), Rat(1, 1), Rat(103, 100), Rat(103, 100), Rat(1, 1),
                  Rat(101, 100)>>}

\* the worked series: two closes 10 and 20; ten closes at 100.00
ScenarioSeries == {<<Rat(10, 1), Rat(20, 1)>>, [i \in 1..10 |-> Rat(100, 1)]}

SeqsOf(S, lengths) == UNION {[1..k -> S] : k \in lengths}

\* a fixed rising-and-falling series of each length, for the calendar cases
RampSeries == {[i \in 1..k |-> Rat(100 + ((i * i) % 4), 100)] : k \in 0..MaxLen}

\* last historical days: one of every weekday (day 17 is a Sunday)
LastDays == 11..17

UTCHost == [tz |-> 0, dstAt |-> 0, shift |-> 0]

\* UTC, UTC-5, UTC+9, and UTC+1 that moves to UTC+2 at 01:00 UTC of day 17
Hosts == {UTCHost,
          [tz |-> -5, dstAt |-> 0, shift |-> 0],
          [tz |-> 9, dstAt |-> 0, shift |-> 0],
          [tz |-> 1, dstAt |-> 17 * 24 + 1, shift |-> 1]}

Inputs ==
  [closes : SeqsOf(CloseValues, 0..MaxLen), lastDay : {13}, host : {UTCHost}]
  \cup [closes : RampSeries, lastDay : LastDays, host : Hosts]
  \cup [closes : SeqsOf(LongCloseValues, LongLengths), lastDay : {13}, host : {UTCHost}]
  \cup [closes : ScenarioSeries, lastDay : {13}, host : {UTCHost}]
  \cup [closes : ArimaSeries, lastDay : {13}, host : {UTCHost}]

\* one StockDataPoint per calendar day, the last one dated lastDay
MkData(closes, lastDay) ==
  [i \in 1..Len(closes) |-> [date |-> lastDay - (Len(closes) - i), close |-> closes[i]]]

\* window sizes, 5 being the default of movingAveragePredict
WindowSizes == {1, 2, 3, 5}
Alphas == {Rat(0, 1), Rat(3, 10), Rat(1, 2), Rat(1, 1)}
Orders == 1..2
Differencings == 0..2
ForecastDaysRange == 0..MaxForecastDays

\* one step more for the moving average, where the third forecast is the first
\* whose window holds a forecast made from a forecast, and for ARIMA on the
\* series of ArimaSeries, where a window of two residuals is all zeros at the third
ExtendedForecastDaysRange == 0..(MaxForecastDays + 1)

\* The smoothing recursion multiplies the denominator by alpha's at every step:
\* with tenths the exact values stay within 32-bit integers for 7 steps on closes
\* with cents and for 9 on whole closes.
SmoothingFits(alpha, dt, forecastDays) ==
  alpha.d # 10
  \/ Len(dt) - 1 + forecastDays <= (IF \A i \in 1..Len(dt) : dt[i].close.d = 1 THEN 9 ELSE 7)

NoCall == [op |-> "none", windowSize |-> 0, alpha |-> Zero, p |-> 0, d |-> 0, q |-> 0,
           forecastDays |-> 0]
NoRet == [threw |-> FALSE, results |-> <<>>]
NoScore == [of |-> "none", value |-> Zero]
NoAll == [threw |-> FALSE, byModel |-> <<>>]
NoBest == [bestModel |-> "none", metrics |-> <<>>]

\* The Dashboard before its first effect: the query of the training data (window
\* 90) is in flight, forecastDays is 7, nothing is predicted.
Loading == 0
NoPredictions == [run |-> 0, trainingData |-> Loading, forecastDays |-> 0]

InitialDashboard ==
  [trainingWindow |-> 90,
   trainingData |-> Loading,
   cache |-> {},
   forecastDays |-> 7,
   predictions |-> NoPredictions,
   bestModelInfo |-> NoPredictions,
   isPredicting |-> FALSE]

\* timer delays, in units of 100 ms: the wait of generatePredictions, the timer of
\* the 'Generate Predictions' button, the delay of fetchStockData
RunDelay == 8
ButtonDelay == 15
FetchDelay == 5

Task(kind, remaining, trainingData, forecastDays, run) ==
  [kind |-> kind, remaining |-> remaining, trainingData |-> trainingData,
   forecastDays |-> forecastDays, run |-> run]

InitialTasks == <<Task("fetch", FetchDelay, 90, 0, 0)>>

Init ==
  \E inp \in Inputs :
    /\ data = MkData(inp.closes, inp.lastDay)
    /\ host = inp.host
    /\ call = NoCall
    /\ ret = NoRet
    /\ score = NoScore
    /\ allPredictions = NoAll
    /\ best = NoBest
    /\ dashboard = InitialDashboard
    /\ tasks = InitialTasks
    /\ started = 0

Forecasters == {"movingAveragePredict", "exponentialSmoothingPredict", "arimaPredict"}

CallMovingAverage ==
  /\ call.op = "none"
  /\ Len(data) <= MaxLen \/ closePricesOf(data) \in ScenarioSeries
  /\ \E windowSize \in WindowSizes, forecastDays \in ExtendedForecastDaysRange :
       /\ call' = [NoCall EXCEPT !.op = "movingAveragePredict",
                                 !.windowSize = windowSize, !.forecastDays = forecastDays]
       /\ ret' = movingAveragePredict(data, windowSize, forecastDays, host)
  /\ data' = DataAfterMovingAverage(data)
  /\ UNCHANGED <<host, score, allPredictions, best>>
  /\ UNCHANGED dash

CallExponentialSmoothing ==
  /\ call.op = "none"
  /\ Len(data) <= MaxLen
  /\ \E alpha \in Alphas, forecastDays \in ForecastDaysRange :
       /\ SmoothingFits(alpha, data, forecastDays)
       /\ call' = [NoCall EXCEPT !.op = "exponentialSmoothingPredict",
                                 !.alpha = alpha, !.forecastDays = forecastDays]
       /\ ret' = exponentialSmoothingPredict(data, alpha, forecastDays, host)
  /\ data' = DataAfterExponentialSmoothing(data)
  /\ UNCHANGED <<host, score, allPredictions, best>>
  /\ UNCHANGED dash

CallArima ==
  /\ call.op = "none"
  /\ Len(data) <= MaxLen \/ closePricesOf(data) \in ArimaSeries
  /\ \E p \in Orders, d \in Differencings, q \in Orders,
        forecastDays \in ExtendedForecastDaysRange :
       /\ forecastDays \in ForecastDaysRange \/ closePricesOf(data) \in ArimaSeries
       /\ call' = [NoCall EXCEPT !.op = "arimaPredict", !.p = p, !.d = d, !.q = q,
                                 !.forecastDays = forecastDays]
       /\ ret' = arimaPredict(data, p, d, q, forecastDays, host)
  /\ data' = DataAfterArima(data)
  /\ UNCHANGED <<host, score, allPredictions, best>>
  /\ UNCHANGED dash

CallCalculateMAE ==
  /\ call.op \in Forecasters
  /\ ~ret.threw
  /\ score = NoScore
  /\ score' = [of |-> "calculateMAE", value |-> calculateMAE(ret.results)]
  /\ ret' = [ret EXCEPT !.results = PredictionsAfterEvaluator(@)]
  /\ UNCHANGED <<data, host, call, allPredictions, best>>
  /\ UNCHANGED dash

CallCalculateMPE ==
  /\ call.op \in Forecasters
  /\ ~ret.threw
  /\ score = NoScore
  /\ score' = [of |-> "calculateMPE", value |-> calculateMPE(ret.results)]
  /\ ret' = [ret EXCEPT !.results = PredictionsAfterEvaluator(@)]
  /\ UNCHANGED <<data, host, call, allPredictions, best>>
  /\ UNCHANGED dash

CallGenerateAllPredictions ==
  /\ call.op = "none"
  /\ \E forecastDays \in ForecastDaysRange :
       /\ SmoothingFits(DefaultAlpha, data, forecastDays)
       /\ call' = [NoCall EXCEPT !.op = "generateAllPredictions",
                                 !.forecastDays = forecastDays]
       /\ allPredictions' = generateAllPredictions(data, forecastDays, host)
  /\ data' = DataAfterArima(DataAfterExponentialSmoothing(DataAfterMovingAverage(data)))
  /\ UNCHANGED <<host, ret, score, best>>
  /\ UNCHANGED dash

CallDetermineBestModel ==
  /\ call.op = "generateAllPredictions"
  /\ ~allPredictions.threw
  /\ best = NoBest
  /\ best' = determineBestModel(allPredictions.byModel)
  /\ allPredictions' = [allPredictions EXCEPT !.byModel = PredictionsAfterSelector(@)]
  /\ UNCHANGED <<data, host, call, ret, score>>
  /\ UNCHANGED dash

Next ==
  \/ CallMovingAverage
  \/ CallExponentialSmoothing
  \/ CallArima
  \/ CallCalculateMAE
  \/ CallCalculateMPE
  \/ CallGenerateAllPredictions
  \/ CallDetermineBestModel

Spec == Init /\ [][Next]_vars

-----------------------------------------------------------------------------
(* One series shared by the three forecasters: a caller runs them, each    *)
(* once, in any order on the same array, keeps each output under its       *)
(* model, and may pass a kept output to the evaluator and the three of     *)
(* them to the selector.  allPredictions.byModel holds, per model run so   *)
(* far, the call made and what it returned; the evaluator and the selector *)
(* are passed kept outputs once the three forecasters have run.            *)

SharedWindowSizes == {1, 2}
SharedAlphas == {Rat(1, 2)}
SharedDifferencings == {0, 1}
SharedForecastDays == {MaxForecastDays}

\* the outputs kept so far, with the output of model m
Keep(m, c, r) ==
  [allPredictions EXCEPT !.byModel = (m :> [call |-> c, ret |-> r]) @@ @]

NotRun(m) == m \notin DOMAIN allPredictions.byModel

RunMovingAverage ==
  /\ NotRun(MOVING_AVERAGE)
  /\ Len(data) <= MaxLen
  /\ \E windowSize \in SharedWindowSizes, forecastDays \in SharedForecastDays :
       LET c == [NoCall EXCEPT !.op = "movingAveragePredict",
                               !.windowSize = windowSize, !.forecastDays = forecastDays]
           r == movingAveragePredict(data, windowSize, forecastDays, host)
       IN  allPredictions' = Keep(MOVING_AVERAGE, c, r)
  /\ data' = DataAfterMovingAverage(data)
  /\ UNCHANGED <<host, call, ret, score, best>>
  /\ UNCHANGED dash

RunExponentialSmoothing ==
  /\ NotRun(EXPONENTIAL_SMOOTHING)
  /\ Len(data) <= MaxLen
  /\ \E alpha \in SharedAlphas, forecastDays \in SharedForecastDays :
       LET c == [NoCall EXCEPT !.op = "exponentialSmoothingPredict",
                               !.alpha = alpha, !.forecastDays = forecastDays]
           r == exponentialSmoothingPredict(data, alpha, forecastDays, host)
       IN  allPredictions' = Keep(EXPONENTIAL_SMOOTHING, c, r)
  /\ data' = DataAfterExponentialSmoothing(data)
  /\ UNCHANGED <<host, call, ret, score, best>>
  /\ UNCHANGED dash

RunArima ==
  /\ NotRun(ARIMA)
  /\ Len(data) <= MaxLen
  /\ \E d \in SharedDifferencings, forecastDays \in SharedForecastDays :
       LET c == [NoCall EXCEPT !.op = "arimaPredict", !.p = 1, !.d = d, !.q = 1,
                               !.forecastDays = forecastDays]
           r == arimaPredict(data, 1, d, 1, forecastDays, host)
       IN  allPredictions' = Keep(ARIMA, c, r)
  /\ data' = DataAfterArima(data)
  /\ UNCHANGED <<host, call, ret, score, best>>
  /\ UNCHANGED dash

AllRun == DOMAIN allPredictions.byModel = {MOVING_AVERAGE, EXPONENTIAL_SMOOTHING, ARIMA}

\* the kept output of model m as the evaluator left it
Evaluated(m) ==
  [allPredictions EXCEPT !.byModel[m].ret.results = PredictionsAfterEvaluator(@)]

RunCalculateMAE ==
  /\ AllRun
  /\ score = NoScore
  /\ \E m \in DOMAIN allPredictions.byModel :
       /\ ~allPredictions.byModel[m].ret.threw
       /\ score' = [of |-> "calculateMAE",
                    value |-> calculateMAE(allPredictions.byModel[m].ret.results)]
       /\ allPredictions' = Evaluated(m)
  /\ UNCHANGED <<data, host, call, ret, best>>
  /\ UNCHANGED dash

RunCalculateMPE ==
  /\ AllRun
  /\ score = NoScore
  /\ \E m \in DOMAIN allPredictions.byModel :
       /\ ~allPredictions.byModel[m].ret.threw
       /\ score' = [of |-> "calculateMPE",
                    value |-> calculateMPE(allPredictions.byModel[m].ret.results)]
       /\ allPredictions' = Evaluated(m)
  /\ UNCHANGED <<data, host, call, ret, best>>
  /\ UNCHANGED dash

RunDetermineBestModel ==
  /\ AllRun
  /\ best = NoBest
  /\ \A m \in DOMAIN allPredictions.byModel : ~allPredictions.byModel[m].ret.threw
  /\ LET byModel == [m \in DOMAIN allPredictions.byModel |->
                       allPredictions.byModel[m].ret.results]
         after == PredictionsAfterSelector(byModel)
     IN  /\ best' = determineBestModel(byModel)
         /\ allPredictions' =
              [allPredictions EXCEPT !.byModel =
                 [m \in DOMAIN @ |-> [@[m] EXCEPT !.ret.results = after[m]]]]
  /\ UNCHANGED <<data, host, call, ret, score>>
  /\ UNCHANGED dash

SharedNext ==
  \/ RunMovingAverage
  \/ RunExponentialSmoothing
  \/ RunArima
  \/ RunCalculateMAE
  \/ RunCalculateMPE
  \/ RunDetermineBestModel

SharedSpec == Init /\ [][SharedNext]_vars

-----------------------------------------------------------------------------
(* The Dashboard's prediction runs.  Time passes in ticks of 100 ms; a     *)
(* task is a pending timer: the 800 ms wait of a generatePredictions run,  *)
(* the 1500 ms timer of the 'Generate Predictions' button, or the 500 ms   *)
(* fetch of the training data.  A timer fires when its time has run out,   *)
(* timers that are due at the same time in the order they were set.  The   *)
(* training data of a window is identified by that window; what            *)
(* generateAllPredictions and determineBestModel return for a run is       *)
(* identified by the run and the trainingData and forecastDays its closure *)
(* holds.                                                                  *)

MaxRuns == 3
MaxTasks == 3

\* positions of the sliders of PredictionSettings
TrainingWindows == {60, 90}
ForecastDaysChoices == {7, 8}

\* runs started and fetches that may still start one stay below MaxRuns, pending
\* timers below MaxTasks
Budget ==
  /\ started + Cardinality({i \in 1..Len(tasks) : tasks[i].kind = "fetch"}) < MaxRuns
  /\ Len(tasks) < MaxTasks

\* The effect on [trainingData, forecastDays] after a render with the state d: it
\* returns at once while the training data is loading; otherwise
\* generatePredictions sets isPredicting and waits.
EffectRuns(d) ==
  IF d.trainingData = Loading
  THEN /\ dashboard' = d
       /\ UNCHANGED <<tasks, started>>
  ELSE /\ dashboard' = [d EXCEPT !.isPredicting = TRUE]
       /\ tasks' = Append(tasks, Task("run", RunDelay, d.trainingData, d.forecastDays,
                                      started + 1))
       /\ started' = started + 1

\* the forecast-days slider is moved
SetForecastDays ==
  /\ Budget
  /\ \E v \in ForecastDaysChoices :
       /\ v # dashboard.forecastDays
       /\ EffectRuns([dashboard EXCEPT !.forecastDays = v])
  /\ UNCHANGED engine

\* The training-window slider is moved: the query of the new key has its data in
\* the cache, or is in flight already, or is fetched.
SetTrainingWindow ==
  /\ Budget
  /\ \E w \in TrainingWindows :
       /\ w # dashboard.trainingWindow
       /\ IF w \in dashboard.cache
          THEN EffectRuns([dashboard EXCEPT !.trainingWindow = w, !.trainingData = w])
          ELSE /\ dashboard' = [dashboard EXCEPT !.trainingWindow = w,
                                                 !.trainingData = Loading]
               /\ tasks' = IF \E i \in 1..Len(tasks) :
                                tasks[i].kind = "fetch" /\ tasks[i].trainingData = w
                           THEN tasks
                           ELSE Append(tasks, Task("fetch", FetchDelay, w, 0, 0))
               /\ started' = started
  /\ UNCHANGED engine

\* onClick of the 'Generate Predictions' button
ClickGeneratePredictions ==
  /\ Len(tasks) < MaxTasks
  /\ dashboard' = [dashboard EXCEPT !.isPredicting = TRUE]
  /\ tasks' = Append(tasks, Task("button", ButtonDelay, 0, 0, 0))
  /\ UNCHANGED <<started, engine>>

\* 100 ms pass while no timer is due
Tick ==
  /\ tasks # <<>>
  /\ \A i \in 1..Len(tasks) : tasks[i].remaining > 0
  /\ tasks' = [i \in 1..Len(tasks) |-> [tasks[i] EXCEPT !.remaining = @ - 1]]
  /\ UNCHANGED <<dashboard, started, engine>>

Due == {i \in 1..Len(tasks) : tasks[i].remaining = 0}

FirstDue == CHOOSE i \in Due : \A j \in Due : i <= j

Remove(ts, i) == SubSeq(ts, 1, i - 1) \o SubSeq(ts, i + 1, Len(ts))

\* fetchStockData resolves: the data enters the cache and, when its key is still
\* the current one, becomes trainingData, which runs the effect
TrainingDataArrives ==
  /\ Due # {}
  /\ tasks[FirstDue].kind = "fetch"
  /\ LET w == tasks[FirstDue].trainingData
         d == [dashboard EXCEPT !.cache = @ \cup {w}]
     IN  IF w = dashboard.trainingWindow
         THEN /\ dashboard' = [d EXCEPT !.trainingData = w, !.isPredicting = TRUE]
              /\ tasks' = Append(Remove(tasks, FirstDue),
                                 Task("run", RunDelay, w, d.forecastDays, started + 1))
              /\ started' = started + 1
         ELSE /\ dashboard' = d
              /\ tasks' = Remove(tasks, FirstDue)
              /\ started' = started
  /\ UNCHANGED engine

\* The wait of a run is over: setPredictions, setBestModelInfo with what the two
\* calls return for the data of the run's closure, then the finally block.
RunResumes ==
  /\ Due # {}
  /\ tasks[FirstDue].kind = "run"
  /\ LET t == tasks[FirstDue]
         result == [run |-> t.run, trainingData |-> t.trainingData,
                    forecastDays |-> t.forecastDays]
     IN  dashboard' = [dashboard EXCEPT !.predictions = result,
                                        !.bestModelInfo = result,
                                        !.isPredicting = FALSE]
  /\ tasks' = Remove(tasks, FirstDue)
  /\ UNCHANGED <<started, engine>>

\* the callback of the button's timer
ButtonTimerFires ==
  /\ Due # {}
  /\ tasks[FirstDue].kind = "button"
  /\ dashboard' = [dashboard EXCEPT !.isPredicting = FALSE]
  /\ tasks' = Remove(tasks, FirstDue)
  /\ UNCHANGED <<started, engine>>

DashboardNext ==
  \/ SetForecastDays
  \/ SetTrainingWindow
  \/ ClickGeneratePredictions
  \/ Tick
  \/ TrainingDataArrives
  \/ RunResumes
  \/ ButtonTimerFires

DashboardInit ==
  /\ data = <<>>
  /\ host = UTCHost
  /\ call = NoCall
  /\ ret = NoRet
  /\ score = NoScore
  /\ allPredictions = NoAll
  /\ best = NoBest
  /\ dashboard = InitialDashboard
  /\ tasks = InitialTasks
  /\ started = 0

DashboardSpec == DashboardInit /\ [][DashboardNext]_vars

-----------------------------------------------------------------------------
(* Properties.  Reference definitions used to state them.                  *)

Models == {MOVING_AVERAGE, EXPONENTIAL_SMOOTHING, ARIMA}

\* the place of a model in the order Moving Average, Exponential Smoothing, ARIMA
Rank(m) == CHOOSE k \in 1..3 : ForecastingModel[k] = m

RECURSIVE SumOver(_, _)
\* the sum of f[i] over the finite index set S
SumOver(S, f) ==
  IF S = {} THEN Zero
  ELSE LET i == CHOOSE x \in S : TRUE
       IN  RAdd(f[i], SumOver(S \ {i}, f))

\* r is a multiple of 0.01
IsHundredths(r) == r.d > 0 /\ 100 % r.d = 0

\* r is a 2-decimal rounding of x: a multiple of 0.01 at most 0.005 away from x
IsRounding2(x, r) ==
  /\ IsHundredths(r)
  /\ RLeq(RAbs(RSub(x, r)), Rat(1, 200))

WithActual(results) == {i \in 1..Len(results) : ~IsNull(results[i].actual)}

WithoutActual(results) == {i \in 1..Len(results) : IsNull(results[i].actual)}

Returned == call.op \in Forecasters /\ ~ret.threw

closes == closePricesOf(data)

(* C1: determineBestModel returns a model whose MAE is at most the MAE of  *)
(* each of the three models, the first in the order Moving Average,        *)
(* Exponential Smoothing, ARIMA among those with the lowest MAE; its       *)
(* metrics map holds, for exactly the three models, the calculateMAE and   *)
(* calculateMPE of that model's sequence.                                  *)
C1_BestModelLowestMAE ==
  best # NoBest =>
    LET m == best.metrics
        b == best.bestModel
    IN  /\ b \in Models
        /\ DOMAIN m = Models
        /\ \A x \in Models : RLeq(m[b].mae, m[x].mae)
        /\ \A x \in Models : m[x].mae = m[b].mae => Rank(b) <= Rank(x)
        /\ \A x \in Models :
             /\ m[x].mae = calculateMAE(allPredictions.byModel[x])
             /\ m[x].mpe = calculateMPE(allPredictions.byModel[x])

\* a selection in which a later model ties the winner for the lowest MAE
C1_WitnessTie ==
  /\ best # NoBest
  /\ \E x \in Models : x # best.bestModel /\ best.metrics[x].mae = best.metrics[best.bestModel].mae
  /\ \E x \in Models : RLess(best.metrics[best.bestModel].mae, best.metrics[x].mae)

(* C2: each forecaster throws exactly when the series is shorter than its  *)
(* minimum (windowSize; 2; max(p,q) + d + 1), and then no result exists;   *)
(* at or above the minimum it returns a sequence.                          *)
C2_InsufficientDataExactly ==
  /\ call.op = "movingAveragePredict" => (ret.threw <=> Len(data) < call.windowSize)
  /\ call.op = "exponentialSmoothingPredict" => (ret.threw <=> Len(data) < 2)
  /\ call.op = "arimaPredict" =>
       (ret.threw <=> Len(data) < Max(call.p, call.q) + call.d + 1)
  /\ call.op \in Forecasters /\ ret.threw => ret.results = <<>>
  /\ Returned => DOMAIN ret.results = 1..Len(ret.results)

\* the series one short of the window is refused
C2_WitnessOneShort ==
  /\ call.op = "movingAveragePredict"
  /\ Len(data) = 4
  /\ call.windowSize = 5
  /\ ret.threw

Offset(c) ==
  CASE c.op = "movingAveragePredict" -> c.windowSize
    [] c.op = "exponentialSmoothingPredict" -> 1
    [] c.op = "arimaPredict" -> Max(c.p, c.q) + c.d

(* C3: a returned sequence has length(series) - offset entries with an     *)
(* actual value (offset = windowSize, 1, max(p,q) + d) and exactly         *)
(* forecastDays entries without one.                                       *)
C3_ResultCounts ==
  Returned =>
    /\ Cardinality(WithActual(ret.results)) = Len(data) - Offset(call)
    /\ Cardinality(WithoutActual(ret.results)) = call.forecastDays

\* an ARIMA call with one differencing round, two backtest entries and two forecasts
C3_WitnessArima ==
  /\ Returned
  /\ call.op = "arimaPredict"
  /\ call.d = 1
  /\ Cardinality(WithActual(ret.results)) = 2
  /\ call.forecastDays = 2

lastInputDate == data[Len(data)].date

(* C4: in a returned sequence an entry has an actual value exactly when    *)
(* its date is at most the last input date; the entries without one are    *)
(* exactly the last forecastDays entries; an entry with an actual value    *)
(* carries the input close of its own date.                                *)
C4_ActualIffHistorical ==
  Returned =>
    LET res == ret.results
    IN  /\ \A i \in 1..Len(res) : ~IsNull(res[i].actual) <=> res[i].date <= lastInputDate
        /\ WithoutActual(res) = (Len(res) - call.forecastDays + 1)..Len(res)
        /\ \A i \in WithActual(res) :
             \E k \in 1..Len(data) :
               data[k].date = res[i].date /\ data[k].close = res[i].actual

IsWeekend(day) == WeekDay(day) \in {0, 6}

\* the k-th Monday-to-Friday day strictly after the day last
KthBusinessDayAfter(last, k) ==
  CHOOSE day \in (last + 1)..(last + 7 * k) :
    /\ ~IsWeekend(day)
    /\ Cardinality({x \in (last + 1)..day : ~IsWeekend(x)}) = k

ForecastEntry(k) == ret.results[Len(ret.results) - call.forecastDays + k]

(* C5: the k-th forecast entry is dated the k-th Monday-to-Friday day      *)
(* strictly after the last historical date; forecast dates are strictly    *)
(* increasing, later than the last historical date, never a Saturday or    *)
(* Sunday.                                                                 *)
C5_ForecastOnBusinessDays ==
  Returned =>
    /\ \A k \in 1..call.forecastDays :
         /\ ForecastEntry(k).date = KthBusinessDayAfter(lastInputDate, k)
         /\ ~IsWeekend(ForecastEntry(k).date)
         /\ ForecastEntry(k).date > lastInputDate
    /\ \A k \in 2..call.forecastDays : ForecastEntry(k).date > ForecastEntry(k - 1).date

Without(results, T) ==
  LET indexed == [i \in 1..Len(results) |-> [index |-> i, entry |-> results[i]]]
      kept == SelectSeq(indexed, LAMBDA x : x.index \notin T)
  IN  [j \in 1..Len(kept) |-> kept[j].entry]

NullEntry == PredictionResult(0, Null, Rat(1, 1), MOVING_AVERAGE)

(* C6: calculateMAE is the mean of |actual - predicted| over exactly the   *)
(* entries with an actual value, rounded to 2 decimals; never negative; 0  *)
(* when no entry has an actual value; unchanged when entries without an    *)
(* actual value are removed or appended.                                   *)
C6_MAEIsMeanAbsoluteError ==
  score.of = "calculateMAE" =>
    LET res == ret.results
        S == WithActual(res)
        err == [i \in S |-> RAbs(RSub(res[i].actual, res[i].predicted))]
    IN  /\ S = {} => score.value = Zero
        /\ S # {} =>
             IsRounding2(RDiv(SumOver(S, err), Rat(Cardinality(S), 1)), score.value)
        /\ RLeq(Zero, score.value)
        /\ \A T \in SUBSET WithoutActual(res) : calculateMAE(Without(res, T)) = score.value
        /\ calculateMAE(res \o <<NullEntry>>) = score.value
        /\ calculateMAE(<<NullEntry>> \o res) = score.value

\* a positive MAE of a sequence with at least two actual values and two without
C6_WitnessMixed ==
  /\ score.of = "calculateMAE"
  /\ Cardinality(WithActual(ret.results)) >= 2
  /\ Cardinality(WithoutActual(ret.results)) >= 2
  /\ RLess(Zero, score.value)

(* C7: calculateMPE is the mean of (predicted - actual) / actual * 100     *)
(* over exactly the entries with an actual value, rounded to 2 decimals,   *)
(* with the sign of that mean (never positive when the mean is negative,   *)
(* never negative when it is positive); 0 when no entry has an actual      *)
(* value.                                                                  *)
C7_MPEIsMeanPercentageError ==
  score.of = "calculateMPE" =>
    LET res == ret.results
        S == WithActual(res)
        pct == [i \in S |->
                  RMul(RDiv(RSub(res[i].predicted, res[i].actual), res[i].actual),
                       Rat(100, 1))]
        mean == RDiv(SumOver(S, pct), Rat(Cardinality(S), 1))
    IN  /\ S = {} => score.value = Zero
        /\ S # {} =>
             /\ IsRounding2(mean, score.value)
             /\ RLess(mean, Zero) => RLeq(score.value, Zero)
             /\ RLess(Zero, mean) => RLeq(Zero, score.value)

\* a negative MPE of a sequence with at least two actual values and a forecast
C7_WitnessNegative ==
  /\ score.of = "calculateMPE"
  /\ Cardinality(WithActual(ret.results)) >= 2
  /\ Cardinality(WithoutActual(ret.results)) >= 1
  /\ RLess(score.value, Zero)

\* the forecaster call c made again, on the host h
Invoke(c, dt, h) ==
  CASE c.op = "movingAveragePredict" ->
         movingAveragePredict(dt, c.windowSize, c.forecastDays, h)
    [] c.op = "exponentialSmoothingPredict" ->
         exponentialSmoothingPredict(dt, c.alpha, c.forecastDays, h)
    [] c.op = "arimaPredict" ->
         arimaPredict(dt, c.p, c.d, c.q, c.forecastDays, h)

(* C8: a forecaster's output depends on nothing but its arguments: the     *)
(* same call on the same series returns the identical sequence whenever    *)
(* and wherever it is made, here on every host.                            *)
C8_OutputDependsOnArgumentsOnly ==
  call.op \in Forecasters =>
    \A h \in Hosts : Invoke(call, data, h) = ret

(* C9: every predicted value of a forecaster's result, and every mae and   *)
(* mpe of the evaluator, is a multiple of 0.01 that rounding to 2 decimals *)
(* again leaves unchanged.                                                 *)
C9_RoundedToHundredths ==
  LET Fixed(x) == IsHundredths(x) /\ parseFloatToFixed2(x) = x
  IN  /\ Returned => \A i \in 1..Len(ret.results) : Fixed(ret.results[i].predicted)
      /\ score # NoScore => Fixed(score.value)
      /\ call.op = "generateAllPredictions" /\ ~allPredictions.threw =>
           \A m \in Models : \A i \in 1..Len(allPredictions.byModel[m]) :
             Fixed(allPredictions.byModel[m][i].predicted)
      /\ best # NoBest =>
           \A m \in Models : Fixed(best.metrics[m].mae) /\ Fixed(best.metrics[m].mpe)

\* an ARIMA result whose backtest and forecast values are no closes of the series
C9_WitnessRounded ==
  /\ Returned
  /\ call.op = "arimaPredict"
  /\ call.forecastDays = 2
  /\ Cardinality(WithActual(ret.results)) >= 1
  /\ \A i \in 1..Len(ret.results) :
       /\ \A k \in 1..Len(data) : ret.results[i].predicted # data[k].close
       /\ ret.results[i].predicted.d = 100

(* C10: the backtest entry of movingAveragePredict for the 0-based index   *)
(* i, windowSize <= i < length, is dated date[i], has actual close[i] and  *)
(* predicted the 2-decimal rounding of the mean of close[i - windowSize]   *)
(* .. close[i - 1].                                                        *)
C10_MABacktestIsWindowMean ==
  Returned /\ call.op = "movingAveragePredict" =>
    \A i \in call.windowSize..(Len(data) - 1) :
      LET e == ret.results[i - call.windowSize + 1]
          W == (i - call.windowSize + 1)..i
          mean == RDiv(SumOver(W, closes), Rat(call.windowSize, 1))
      IN  /\ e.date = data[i + 1].date
          /\ e.actual = closes[i + 1]
          /\ IsRounding2(mean, e.predicted)
          /\ e.modelName = MOVING_AVERAGE

\* two backtest entries over a window of two different closes, the mean not a close
C10_WitnessWindow ==
  /\ Returned
  /\ call.op = "movingAveragePredict"
  /\ call.windowSize = 2
  /\ Len(data) = 4
  /\ closes[1] # closes[2]
  /\ closes[3] # closes[2]
  /\ ret.results[2].predicted # ret.results[1].predicted
  /\ ret.results[2].actual # ret.results[2].predicted

RECURSIVE RPow(_, _)
\* x to the power k, k >= 0
RPow(x, k) == IF k = 0 THEN Rat(1, 1) ELSE RMul(x, RPow(x, k - 1))

\* The smoothed value f(i) written out: (1-alpha)^i * close[0] plus the sum over
\* k = 0 .. i-1 of alpha * (1-alpha)^(i-1-k) * close[k]  (c is 1-based: close[k] =
\* c[k + 1]).
SmoothedValue(c, alpha, i) ==
  LET beta == RSub(Rat(1, 1), alpha)
  IN  RAdd(RMul(RPow(beta, i), c[1]),
           SumOver(1..i, [k \in 1..i |-> RMul(RMul(alpha, RPow(beta, i - k)), c[k])]))

\* the state a call of exponentialSmoothingPredict returns in (the evaluator
\* calls that may follow leave call, ret and data as they are)
ReturnedES == Returned /\ call.op = "exponentialSmoothingPredict" /\ score = NoScore

(* C11: the backtest entry of exponentialSmoothingPredict for the 0-based  *)
(* index i, 1 <= i < length, has actual close[i] and predicted the         *)
(* 2-decimal rounding of f(i), where f(0) = close[0] and f(i) = alpha *    *)
(* close[i-1] + (1 - alpha) * f(i-1) unrounded; close[i] is not used, so   *)
(* the first backtest prediction is close[0] for every alpha (closes 10,   *)
(* 20 with alpha 0.3: one backtest entry, predicted 10, actual 20).        *)
C11_ESBacktestIsSmoothedValue ==
  ReturnedES =>
    /\ \A i \in 1..(Len(data) - 1) :
         LET e == ret.results[i]
         IN  /\ e.date = data[i + 1].date
             /\ e.actual = closes[i + 1]
             /\ IsRounding2(SmoothedValue(closes, call.alpha, i), e.predicted)
             /\ e.modelName = EXPONENTIAL_SMOOTHING
    /\ ret.results[1].predicted = closes[1]
    /\ closes = <<Rat(10, 1), Rat(20, 1)>> /\ call.alpha = Rat(3, 10) =>
         /\ Cardinality(WithActual(ret.results)) = 1
         /\ ret.results[1].predicted = Rat(10, 1)
         /\ ret.results[1].actual = Rat(20, 1)

\* three backtest entries with alpha 0.3 over closes that differ, the last
\* prediction different from every close
C11_WitnessSmoothed ==
  /\ ReturnedES
  /\ call.alpha = Rat(3, 10)
  /\ Len(data) = 4
  /\ closes[1] # closes[2]
  /\ closes[2] # closes[3]
  /\ \A k \in 1..4 : ret.results[3].predicted # closes[k]

ReturnedMA == Returned /\ call.op = "movingAveragePredict"

\* The window of the forecast step k (1-based) of the returned moving-average
\* result: the windowSize values that follow the first k - 1 of the sequence
\* <last windowSize closes, forecast 1, forecast 2, ...>.
MAWindowAt(k) ==
  LET w == call.windowSize
  IN  [j \in 1..w |->
         IF k - 1 + j <= w THEN closes[Len(closes) - w + (k - 1) + j]
         ELSE ForecastEntry(k - 1 + j - w).predicted]

(* C12: the forecast step k of movingAveragePredict emits the 2-decimal    *)
(* rounding of the mean of its window, with no actual value; the window of *)
(* step 1 is the last windowSize closes and the window of step k + 1 is    *)
(* the window of step k without its oldest element and with the rounded    *)
(* prediction of step k appended, so it always has windowSize elements and *)
(* from step windowSize + 1 on holds forecasts only.                       *)
C12_MAForecastWindowSlides ==
  ReturnedMA =>
    \A k \in 1..call.forecastDays :
      LET win == MAWindowAt(k)
          e == ForecastEntry(k)
      IN  /\ Len(win) = call.windowSize
          /\ k = 1 => win = SliceLast(closes, call.windowSize)
          /\ k > 1 => win = Tail(MAWindowAt(k - 1)) \o <<ForecastEntry(k - 1).predicted>>
          /\ k > call.windowSize =>
               \A j \in 1..Len(win) :
                 \E f \in 1..(k - 1) : win[j] = ForecastEntry(f).predicted
          /\ IsRounding2(RDiv(SumOver(1..Len(win), win), Rat(call.windowSize, 1)),
                         e.predicted)
          /\ IsNull(e.actual)
          /\ e.modelName = MOVING_AVERAGE

\* three forecasts from a window of two: the third window holds forecasts only,
\* the first of them a value that is no close of the series
C12_WitnessSlide ==
  /\ ReturnedMA
  /\ call.windowSize = 2
  /\ call.forecastDays = 3
  /\ \A k \in 1..Len(closes) : ForecastEntry(1).predicted # closes[k]
  /\ ForecastEntry(2).predicted # ForecastEntry(1).predicted

RECURSIVE ESForecastValue(_)
\* The unrounded forecast after the forecast step k of the returned exponential-
\* smoothing result: the value the backtest left for k = 0; then alpha * lastActual
\* + (1 - alpha) * (the value after step k - 1), lastActual being the final close
\* at step 1 and the prediction emitted by step k - 1 afterwards.
ESForecastValue(k) ==
  IF k = 0 THEN SmoothedValue(closes, call.alpha, Len(closes) - 1)
  ELSE LET lastActual == IF k = 1 THEN closes[Len(closes)]
                         ELSE ForecastEntry(k - 1).predicted
       IN  RAdd(RMul(call.alpha, lastActual),
                RMul(RSub(Rat(1, 1), call.alpha), ESForecastValue(k - 1)))

(* C13: the forecast step k of exponentialSmoothingPredict sets forecast   *)
(* to alpha * lastActual + (1 - alpha) * forecast and emits its 2-decimal  *)
(* rounding with no actual value; forecast starts as the unrounded value   *)
(* the backtest left, lastActual as the final observed close, and after a  *)
(* step lastActual is the rounded prediction that step emitted, so only    *)
(* step 1 reads an observed close.                                         *)
C13_ESForecastChainsOnPredictions ==
  ReturnedES =>
    \A k \in 1..call.forecastDays :
      LET e == ForecastEntry(k)
      IN  /\ IsRounding2(ESForecastValue(k), e.predicted)
          /\ IsNull(e.actual)
          /\ e.modelName = EXPONENTIAL_SMOOTHING

\* two forecasts, the first different from the final close, the second not the
\* value that smoothing the final close once more would give
C13_WitnessChain ==
  /\ ReturnedES
  /\ call.forecastDays = 2
  /\ ForecastEntry(1).predicted # closes[Len(closes)]
  /\ ~IsRounding2(RAdd(RMul(call.alpha, closes[Len(closes)]),
                       RMul(RSub(Rat(1, 1), call.alpha), ESForecastValue(1))),
                  ForecastEntry(2).predicted)

GeneratedAll == call.op = "generateAllPredictions"

\* the dates of the last n entries of a result
ForecastDates(results, n) ==
  [k \in 1..n |-> results[Len(results) - n + k].date]

(* C14: generateAllPredictions returns, under the key of each model, the   *)
(* output of movingAveragePredict with windowSize 7, of                    *)
(* exponentialSmoothingPredict with alpha 0.3 and of arimaPredict with     *)
(* p = 3, d = 1, q = 1 for the same series and forecastDays; every entry   *)
(* carries the name of the model it is keyed by and the three sequences    *)
(* end with the same forecastDays forecast dates; it throws when one of    *)
(* the three throws.                                                       *)
C14_AllPredictionsAreTheThreeDefaults ==
  GeneratedAll =>
    LET ma == movingAveragePredict(data, 7, call.forecastDays, host)
        es == exponentialSmoothingPredict(data, Rat(3, 10), call.forecastDays, host)
        ar == arimaPredict(data, 3, 1, 1, call.forecastDays, host)
        by == allPredictions.byModel
    IN  /\ allPredictions.threw <=> (ma.threw \/ es.threw \/ ar.threw)
        /\ ~allPredictions.threw =>
             /\ DOMAIN by = Models
             /\ by[MOVING_AVERAGE] = ma.results
             /\ by[EXPONENTIAL_SMOOTHING] = es.results
             /\ by[ARIMA] = ar.results
             /\ \A m \in Models : \A i \in 1..Len(by[m]) : by[m][i].modelName = m
             /\ \A m \in Models :
                  /\ Cardinality(WithoutActual(by[m])) = call.forecastDays
                  /\ ForecastDates(by[m], call.forecastDays)
                       = ForecastDates(by[MOVING_AVERAGE], call.forecastDays)

\* a returned map over a series of 8 closes that differ, with two forecasts
C14_WitnessReturned ==
  /\ GeneratedAll
  /\ ~allPredictions.threw
  /\ Len(data) = 8
  /\ call.forecastDays = 2
  /\ \E i, j \in 1..Len(data) : closes[i] # closes[j]
  /\ Len(allPredictions.byModel[MOVING_AVERAGE]) = 3
  /\ Len(allPredictions.byModel[EXPONENTIAL_SMOOTHING]) = 9
  /\ Len(allPredictions.byModel[ARIMA]) = 6

\* all closes of the series are one value
ConstantSeries == Len(closes) >= 1 /\ \A i \in 1..Len(closes) : closes[i] = closes[1]

(* C15: for a series whose closes all equal one 2-decimal value c and a    *)
(* windowSize from 1 to the length of the series, every predicted value of *)
(* movingAveragePredict, backtest and forecast, is c and calculateMAE of   *)
(* the result is 0 (ten closes at 100.00, windowSize 5: five backtest      *)
(* predictions, all 100.00, MAE 0).                                        *)
C15_ConstantSeriesPredictsConstant ==
  ReturnedMA /\ ConstantSeries /\ IsHundredths(closes[1]) =>
    /\ \A i \in 1..Len(ret.results) : ret.results[i].predicted = closes[1]
    /\ calculateMAE(ret.results) = Zero
    /\ score.of = "calculateMAE" => score.value = Zero
    /\ Len(closes) = 10 /\ closes[1] = Rat(100, 1) /\ call.windowSize = 5 =>
         /\ WithActual(ret.results) = 1..5
         /\ \A i \in 1..5 : ret.results[i].predicted = Rat(100, 1)

\* the MAE of the result for ten closes at 100.00, windowSize 5 and three forecasts
C15_WitnessTenAtHundred ==
  /\ ReturnedMA
  /\ ConstantSeries
  /\ Len(closes) = 10
  /\ closes[1] = Rat(100, 1)
  /\ call.windowSize = 5
  /\ call.forecastDays = 3
  /\ score.of = "calculateMAE"

Kept == allPredictions.byModel

ReturnedArima == Returned /\ call.op = "arimaPredict" /\ score = NoScore

\* the d-times differenced closes and what the backtest of the returned ARIMA call
\* computed from them
DiffCloses == Difference(closes, call.d)

Backtested ==
  ArimaBacktest(DiffCloses, call.p, call.q, Max(call.p, call.q),
                [predictions |-> <<>>, errors |-> <<>>])

RECURSIVE DiffPredictionsUpTo(_, _, _, _)
\* The differenced predictions of the backtest steps 1 .. n (the step m is that of
\* the 0-based index i = max(p, q) + m - 1 of D, which is D[i + 1] here): the
\* prediction of a step is (1/p) * (D[i-1] + ... + D[i-p]) + (1/q) * (the
\* residuals of the min(q, m - 1) steps before it), the residual of a step being
\* D[i] minus its prediction.
DiffPredictionsUpTo(D, p, q, n) ==
  IF n = 0 THEN <<>>
  ELSE LET upTo == DiffPredictionsUpTo(D, p, q, n - 1)
           i == Max(p, q) + n - 1
           recent == 1..Min(q, n - 1)
           Residual(m) == RSub(D[Max(p, q) + m], upTo[m])
       IN  Append(upTo,
                  RAdd(RMul(Rat(1, p), SumOver(1..p, [j \in 1..p |-> D[i - j + 1]])),
                       RMul(Rat(1, q),
                            SumOver(recent, [j \in recent |-> Residual(n - j)]))))

DiffPrediction(D, p, q, n) == DiffPredictionsUpTo(D, p, q, n)[n]

(* C17: the backtest of arimaPredict makes one differenced prediction for  *)
(* every index i of the d-times differenced series D from max(p, q) to its *)
(* end: (1/p) * (D[i-1] + ... + D[i-p]) plus (1/q) * (the sum of the most  *)
(* recent min(q, number of residuals so far) residuals); the residual of a *)
(* step is D[i] minus its prediction, appended after the step, so the MA   *)
(* term of the first step is 0; the entry returned for the step is the     *)
(* rounding of that prediction plus the d closes before its date.          *)
C17_ArimaBacktestPrediction ==
  ReturnedArima =>
    LET D == DiffCloses
        p == call.p
        q == call.q
        st == Backtested
        steps == Len(D) - Max(p, q)
        expected == DiffPredictionsUpTo(D, p, q, steps)
    IN  /\ Len(st.predictions) = steps
        /\ Len(st.errors) = steps
        /\ \A n \in 1..steps :
             /\ st.predictions[n] = expected[n]
             /\ st.errors[n] = RSub(D[Max(p, q) + n], expected[n])
             /\ IsRounding2(
                  RAdd(expected[n],
                       SumOver(1..call.d,
                               [j \in 1..call.d |-> closes[Max(p, q) + call.d + n - j]])),
                  ret.results[n].predicted)
        /\ steps >= 1 =>
             st.predictions[1] = RMul(Rat(1, p), SumOver(1..p, [j \in 1..p |-> D[Max(p, q) - j + 1]]))

\* four backtest steps with p = 1 and q = 2, the first three residuals not 0: the
\* second prediction has one residual in its MA term, the third and fourth two
C17_WitnessTwoResiduals ==
  /\ ReturnedArima
  /\ call.p = 1
  /\ call.q = 2
  /\ call.d = 0
  /\ Len(Backtested.errors) = 4
  /\ \A n \in 1..3 : Backtested.errors[n] # Zero

\* the backtest entry n of the returned ARIMA result is the rounding of a value
\* whose distance from the actual close of its date is the distance of the
\* differenced prediction from the actual differenced value
UndifferencedExactly(n) ==
  LET i == Max(call.p, call.q) + n
      unrounded == UndiffHistorical(Backtested.predictions, closes, n,
                                    call.p, call.q, call.d)
  IN  /\ RSub(unrounded, closes[i + call.d])
           = RSub(DiffPrediction(DiffCloses, call.p, call.q, n), DiffCloses[i])
      /\ IsRounding2(RAdd(closes[i + call.d],
                          RSub(DiffPrediction(DiffCloses, call.p, call.q, n),
                               DiffCloses[i])),
                     ret.results[n].predicted)

(* C18: for every d >= 1 the backtest un-differencing of arimaPredict is   *)
(* the exact inverse of the differencing: for each backtest entry the      *)
(* unrounded original-scale prediction minus the actual close of its date  *)
(* equals the differenced prediction minus the actual differenced value.   *)
C18_UndifferencingIsInverse ==
  ReturnedArima /\ call.d >= 1 =>
    \A n \in 1..Len(Backtested.predictions) : UndifferencedExactly(n)

\* the mean-weighted sum the forecast loop takes of a window: coefficient 1/order
\* on each of its last min(order, length) elements
WindowTerm(window, order) ==
  LET count == Min(order, Len(window))
  IN  RMul(Rat(1, order),
           SumOver(1..count, [j \in 1..count |-> window[Len(window) - j + 1]]))

\* The windows lastPredictions and lastErrors at the start of a forecast step, and
\* the MA term and the differenced prediction the step makes from them.
WindowsOf(lastPredictions, lastErrors) ==
  [lastPredictions |-> lastPredictions,
   lastErrors |-> lastErrors,
   ma |-> WindowTerm(lastErrors, call.q),
   diff |-> RAdd(WindowTerm(lastPredictions, call.p), WindowTerm(lastErrors, call.q))]

RECURSIVE ForecastWindowsUpTo(_)
\* The windows of the forecast steps 1 .. k of the returned ARIMA call: those of
\* step 1 are the last p backtest predictions and the last q backtest residuals;
\* a step drops the oldest of each and appends its differenced prediction and 0.
ForecastWindowsUpTo(k) ==
  IF k = 0 THEN <<>>
  ELSE IF k = 1
       THEN LET bt == Backtested
            IN  <<WindowsOf(SliceLast(bt.predictions, call.p),
                            SliceLast(bt.errors, call.q))>>
       ELSE LET upTo == ForecastWindowsUpTo(k - 1)
                before == upTo[k - 1]
            IN  Append(upTo, WindowsOf(Tail(before.lastPredictions) \o <<before.diff>>,
                                       Tail(before.lastErrors) \o <<Zero>>))

ForecastWindows(k) == ForecastWindowsUpTo(k)[k]

(* C19: with d = 1 the forecast step k of arimaPredict emits the 2-decimal *)
(* rounding of (the differenced prediction of step k + base), where base   *)
(* is the last observed close at step 1 and the value emitted by step      *)
(* k - 1 at every step k > 1; a backtest prediction is never the base.     *)
C19_ForecastBaseIsLastClose ==
  ReturnedArima /\ call.d = 1 =>
    \A k \in 1..call.forecastDays :
      LET base == IF k = 1 THEN closes[Len(closes)] ELSE ForecastEntry(k - 1).predicted
      IN  IsRounding2(RAdd(ForecastWindows(k).diff, base), ForecastEntry(k).predicted)

\* the backtest residuals the forecast step k still has in its window, N being
\* their number: of the last q (of all of them when the backtest made fewer than
\* q), those after the first k - 1
ResidualsLeft(N, k) == {n \in 1..N : n > N - Min(call.q, N) + (k - 1)}

\* the value the forecast step k adds to its differenced prediction for d <= 1:
\* nothing for d = 0; for d = 1 the last element of undiffPredictions, the
\* unrounded last backtest prediction at step 1 and the forecast of step k - 1 later
ForecastBase(k) ==
  IF call.d = 0 THEN Zero
  ELSE IF k = 1
       THEN LET predictions == Backtested.predictions
            IN  UndiffHistorical(predictions, closes, Len(predictions),
                                 call.p, call.q, call.d)
       ELSE ForecastEntry(k - 1).predicted

RECURSIVE ForecastDiffsUpTo(_, _)
\* The differenced predictions of the forecast steps 1 .. k after the backtest bt,
\* with the MA term of a step taken as (1/q) * (the sum of the backtest residuals
\* left at that step); the AR term is 1/p on each of the last p of <backtest
\* predictions, differenced forecasts so far>, the window having min(p, number of
\* backtest predictions) elements.
ForecastDiffsUpTo(bt, k) ==
  IF k = 0 THEN <<>>
  ELSE LET upTo == ForecastDiffsUpTo(bt, k - 1)
           start == SliceLast(bt.predictions, call.p)
           all == start \o upTo
           window == SubSeq(all, k, Len(start) + k - 1)
       IN  Append(upTo,
                  RAdd(WindowTerm(window, call.p),
                       RMul(Rat(1, call.q),
                            SumOver(ResidualsLeft(Len(bt.errors), k), bt.errors))))

(* C20: in the forecast loop of arimaPredict every future step has the     *)
(* residual 0: the window of residuals starts as the last q backtest       *)
(* residuals (all of them when there are fewer) and each step drops its    *)
(* oldest and appends 0, so the MA term of step k is 1/q times the sum of  *)
(* the backtest residuals not yet dropped and is exactly 0 for every       *)
(* k > q; the forecast emitted (d <= 1) is the rounding of the prediction  *)
(* made with that MA term.                                                 *)
C20_FutureResidualsAreZero ==
  ReturnedArima =>
    LET bt == Backtested
        N == Len(bt.errors)
        windows == ForecastWindowsUpTo(call.forecastDays)
        diffs == ForecastDiffsUpTo(bt, call.forecastDays)
    IN  \A k \in 1..call.forecastDays :
          LET lastErrors == windows[k].lastErrors
              left == ResidualsLeft(N, k)
          IN  /\ k = 1 => lastErrors = SliceLast(bt.errors, call.q)
              /\ \A j \in 1..Len(lastErrors) :
                   lastErrors[j] = IF j > Len(lastErrors) - (k - 1) THEN Zero
                                   ELSE bt.errors[N - Len(lastErrors) + j + (k - 1)]
              /\ windows[k].ma = RMul(Rat(1, call.q), SumOver(left, bt.errors))
              /\ k > call.q => left = {} /\ windows[k].ma = Zero
              /\ call.d <= 1 =>
                   IsRounding2(RAdd(diffs[k], ForecastBase(k)), ForecastEntry(k).predicted)

\* three forecasts with q = 2 after a backtest whose last two residuals are not 0
\* and do not cancel: the MA terms are both, the last one, none
C20_WitnessThreeSteps ==
  /\ ReturnedArima
  /\ call.q = 2
  /\ call.d = 1
  /\ call.forecastDays = 3
  /\ Len(Backtested.errors) >= 2
  /\ Backtested.errors[Len(Backtested.errors)] # Zero
  /\ ForecastWindows(1).ma # Zero
  /\ ForecastWindows(2).ma # Zero
  /\ ForecastWindows(1).ma # ForecastWindows(2).ma

\* the arrays of the forecast loop of the returned ARIMA call: element k is what
\* step k starts with, element forecastDays + 1 what the last step leaves
LoopWindows ==
  ArimaForecastWindows(ArimaStart(Backtested, closes, call.p, call.q, call.d),
                       call.p, call.q, call.d, 0, call.forecastDays)

\* window is the window before, without its oldest element and with value appended
SlidBy(before, window, value) == window = Tail(before) \o <<value>>

(* C21 as stated: at every step of the forecast loop of arimaPredict       *)
(* (p, q, d >= 1) the AR window holds exactly p differenced predictions,   *)
(* the residual window exactly q residuals and the trailing-actuals window *)
(* exactly d values, and each step slides all three windows forward by one *)
(* newly produced value, their sizes unchanged.                            *)
C21_WindowsHoldExactlyPQD ==
  ReturnedArima /\ call.d >= 1 =>
    LET windows == LoopWindows
    IN  /\ \A k \in 1..Len(windows) :
             /\ Len(windows[k].lastPredictions) = call.p
             /\ Len(windows[k].lastErrors) = call.q
             /\ Len(windows[k].lastActuals) = call.d
        /\ \A k \in 1..call.forecastDays :
             /\ SlidBy(windows[k].lastPredictions, windows[k + 1].lastPredictions,
                       ForecastWindows(k).diff)
             /\ SlidBy(windows[k].lastErrors, windows[k + 1].lastErrors, Zero)
             /\ SlidBy(windows[k].lastActuals, windows[k + 1].lastActuals,
                       ForecastEntry(k).predicted)

(* C21 amended: with N = length - max(p, q) - d >= 1 the number of         *)
(* backtest predictions, at every step of the forecast loop the AR window  *)
(* holds min(p, N) differenced predictions and the residual window         *)
(* min(q, N) residuals, each step slides these two forward (dropping the   *)
(* oldest, appending the step's differenced prediction and 0) with their   *)
(* sizes unchanged, and the trailing-actuals window holds the last d       *)
(* closes at every step and is never slid.                                 *)
C21_WindowsHoldAtMostPQ ==
  ReturnedArima /\ call.d >= 1 =>
    LET windows == LoopWindows
        N == Len(closes) - Max(call.p, call.q) - call.d
    IN  /\ N >= 1
        /\ Len(windows) = call.forecastDays + 1
        /\ \A k \in 1..Len(windows) :
             /\ Len(windows[k].lastPredictions) = Min(call.p, N)
             /\ Len(windows[k].lastErrors) = Min(call.q, N)
             /\ Len(windows[k].lastActuals) = call.d
             /\ windows[k].lastActuals =
                  SubSeq(closes, Len(closes) - call.d + 1, Len(closes))
        /\ \A k \in 1..call.forecastDays :
             /\ SlidBy(windows[k].lastPredictions, windows[k + 1].lastPredictions,
                       ArimaStep(windows[k], call.p, call.q, call.d,
                                 k - 1).diffPrediction)
             /\ SlidBy(windows[k].lastErrors, windows[k + 1].lastErrors, Zero)

\* two forecast steps with p = 2 after a backtest that made one prediction only:
\* the AR window holds one value, the trailing-actuals window the last close
C21_WitnessShortWindow ==
  /\ ReturnedArima
  /\ call.p = 2
  /\ call.q = 1
  /\ call.d = 1
  /\ call.forecastDays = 2
  /\ Len(Backtested.predictions) = 1
  /\ Len(LoopWindows[3].lastPredictions) = 1
  /\ LoopWindows[3].lastPredictions # LoopWindows[1].lastPredictions
  /\ LoopWindows[3].lastActuals = <<closes[Len(closes)]>>

(* C22: generateAllPredictions is all-or-nothing: it throws, returning no *)
(* model's predictions, exactly when the series has fewer than 7 points    *)
(* (7, 2 and 5 are the minimums of the three calls it makes), and for a    *)
(* series of 7 or more points it returns all three sequences.              *)
C22_AllOrNothingAtSeven ==
  GeneratedAll =>
    /\ allPredictions.threw <=> Len(data) < 7
    /\ allPredictions.threw => DOMAIN allPredictions.byModel = {}
    /\ ~allPredictions.threw =>
         /\ DOMAIN allPredictions.byModel = Models
         /\ Len(allPredictions.byModel[MOVING_AVERAGE])
              = Len(data) - 7 + call.forecastDays
         /\ Len(allPredictions.byModel[EXPONENTIAL_SMOOTHING])
              = Len(data) - 1 + call.forecastDays
         /\ Len(allPredictions.byModel[ARIMA])
              = Len(data) - 4 + call.forecastDays

\* six points: exponential smoothing and ARIMA alone would return, the moving
\* average throws and nothing is returned
C22_WitnessSixPoints ==
  /\ GeneratedAll
  /\ Len(data) = 6
  /\ allPredictions.threw
  /\ ~exponentialSmoothingPredict(data, DefaultAlpha, call.forecastDays, host).threw
  /\ ~arimaPredict(data, DefaultP, DefaultD, DefaultQ, call.forecastDays, host).threw

\* x lies between a and b inclusive, whichever of the two is the smaller
Between(a, x, b) ==
  LET up == RSub(x, a).n
      left == RSub(b, x).n
  IN  (up >= 0 /\ left >= 0) \/ (up <= 0 /\ left <= 0)

(* C23: for alpha in [0, 1] all forecast-horizon values of                 *)
(* exponentialSmoothingPredict are equal: lastActual is the rounded        *)
(* previous prediction, so the forecast of every later step lies between   *)
(* the previous forecast and its rounding and rounds to the same           *)
(* 2-decimal value.                                                        *)
C23_ESForecastsAllEqual ==
  ReturnedES =>
    /\ \A j, k \in 1..call.forecastDays :
         ForecastEntry(j).predicted = ForecastEntry(k).predicted
    /\ \A k \in 2..call.forecastDays :
         Between(ESForecastValue(k - 1), ESForecastValue(k), ForecastEntry(k - 1).predicted)

\* the most forecasts of a call, with 0 < alpha < 1, where the first forecast is
\* not a 2-decimal value and is not the final close, and the variable forecast
\* moves between the steps while the emitted value stays
C23_WitnessForecastMoves ==
  /\ ReturnedES
  /\ call.forecastDays = MaxForecastDays
  /\ RLess(Zero, call.alpha)
  /\ RLess(call.alpha, Rat(1, 1))
  /\ ~IsHundredths(ESForecastValue(1))
  /\ ForecastEntry(1).predicted # closes[Len(closes)]
  /\ ESForecastValue(2) # ESForecastValue(1)
  /\ ForecastEntry(2).predicted = ForecastEntry(1).predicted

\* v is at least one close of the input series and at most one
WithinCloses(v) ==
  /\ \E i \in 1..Len(closes) : RLeq(closes[i], v)
  /\ \E i \in 1..Len(closes) : RLeq(v, closes[i])

(* C24: for a series of 2-decimal closes every predicted value of          *)
(* movingAveragePredict (windowSize >= 1) and of                           *)
(* exponentialSmoothingPredict (alpha in [0, 1]), backtest and forecast,   *)
(* lies between the minimum and the maximum close of the input series,     *)
(* inclusive.                                                              *)
C24_PredictionsWithinCloses ==
  (ReturnedMA \/ ReturnedES) /\ (\A i \in 1..Len(closes) : IsHundredths(closes[i])) =>
    \A i \in 1..Len(ret.results) : WithinCloses(ret.results[i].predicted)

\* exponential smoothing of a series that starts at its minimum: the first
\* backtest prediction is that minimum, and a forecast lies strictly inside
C24_WitnessInsideAndAtBound ==
  /\ ReturnedES
  /\ call.alpha = Rat(3, 10)
  /\ call.forecastDays >= 1
  /\ \A i \in 1..Len(closes) : RLeq(closes[1], closes[i])
  /\ ret.results[1].predicted = closes[1]
  /\ \E i, j \in 1..Len(closes) :
       /\ RLess(closes[i], ForecastEntry(1).predicted)
       /\ RLess(ForecastEntry(1).predicted, closes[j])

InBounds(read) == 0 <= read.index /\ read.index < read.length

(* C25: whenever arimaPredict's precondition length >= max(p, q) + d + 1   *)
(* holds (p, q >= 1, d >= 0, forecastDays >= 0), every array position it   *)
(* reads in the differenced series, the closes, the residual list, the     *)
(* reconstructed-prediction list and the trailing-actuals window lies      *)
(* inside that array, in the backtest and at every forecast step, and      *)
(* every predicted value it emits is a defined finite number.              *)
C25_ArimaReadsInBounds ==
  ReturnedArima =>
    /\ \A read \in ArimaReads(Len(data), call.p, call.d, call.q, call.forecastDays) :
         InBounds(read)
    /\ \A i \in 1..Len(ret.results) :
         /\ ~IsNull(ret.results[i].predicted)
         /\ IsHundredths(ret.results[i].predicted)

\* the shortest series for p = q = d = 2 with two forecasts: one backtest
\* prediction only, so every window is as short as it gets; the first forecast
\* step reads the trailing actuals, the second the reconstructed predictions only
C25_WitnessShortestSeries ==
  /\ ReturnedArima
  /\ call.p = 2
  /\ call.q = 2
  /\ call.d = 2
  /\ call.forecastDays = 2
  /\ Len(data) = 5
  /\ Read("lastActuals", 0, 2)
       \in ArimaReads(Len(data), call.p, call.d, call.q, call.forecastDays)
  /\ Read("undiffPredictions", 0, 2)
       \in ArimaReads(Len(data), call.p, call.d, call.q, call.forecastDays)
  /\ Read("lastErrors", 0, 1)
       \in ArimaReads(Len(data), call.p, call.d, call.q, call.forecastDays)

(* C26: the date getNextBusinessDay returns for (lastDate, offset) does    *)
(* not depend on the host's time zone: the weekday it tests and the        *)
(* calendar day it returns are the same day for every UTC offset of the    *)
(* host, so two hosts compute the same forecast dates.                     *)
C26_NextBusinessDayOnEveryHost ==
  Len(data) >= 1 =>
    \A daysToAdd \in 1..MaxForecastDays : \A h1, h2 \in Hosts :
      /\ getNextBusinessDay(data[Len(data)].date, daysToAdd, h1)
           = getNextBusinessDay(data[Len(data)].date, daysToAdd, h2)
      /\ LET t == NextBusinessLoop(NewDate(data[Len(data)].date), 0, daysToAdd, h1)
         IN  GetDay(t, h1) = WeekDay(ToISODate(t))

PendingRuns == {i \in 1..Len(tasks) : tasks[i].kind = "run"}

PendingTimers == {i \in 1..Len(tasks) : tasks[i].kind = "button"}

(* C27: in the Dashboard isPredicting is true in every state in which a    *)
(* prediction run started by the training-data effect has begun and has    *)
(* not reached its finally block, for every interleaving of overlapping    *)
(* runs and of the button's 1500 ms timer; and once no run and no timer is *)
(* pending, isPredicting is false and predictions and bestModelInfo both   *)
(* come from the most recently started run.                                *)
C27_IsPredictingWhileARunIsPending ==
  /\ PendingRuns # {} => dashboard.isPredicting
  /\ PendingRuns = {} /\ PendingTimers = {} =>
       /\ ~dashboard.isPredicting
       /\ dashboard.predictions.run = started
       /\ dashboard.bestModelInfo.run = started

====
